---- MODULE Spec2Model ----
(***************************************************************************)
(* Model of sherpa.astro.background: BackgroundSumModel and add_response,  *)
(* together with the parts of DataPHA and of the ui Session they call.     *)
(*                                                                         *)
(* Numbers are exact rationals [n, d] in lowest terms (floating-point      *)
(* rounding is not modelled).  A grid is a sequence of bin widths; a       *)
(* constant model integrated over a bin gives ampl * width.                *)
(***************************************************************************)
EXTENDS Integers, Sequences, FiniteSets, TLC

\* ------------------------------------------------------------------ bounds
MaxBins == 2         \* longest grid passed to a model
MaxEdits == 1        \* changes to the dataset or the registry that are
                     \* followed while one BackgroundSumModel is held

\* -------------------------------------------------------------- rationals
Abs(i) == IF i < 0 THEN -i ELSE i

RECURSIVE GCD(_, _)
GCD(a, b) == IF b = 0 THEN a ELSE GCD(b, a % b)

R(n, d) == LET g == GCD(Abs(n), Abs(d))
           IN  [n |-> n \div g, d |-> d \div g]

Zero == R(0, 1)
One == R(1, 1)

RAdd(a, b) == R(a.n * b.d + b.n * a.d, a.d * b.d)
RSub(a, b) == R(a.n * b.d - b.n * a.d, a.d * b.d)
RAbs(a) == R(Abs(a.n), Abs(a.d))
RMul(a, b) == R(a.n * b.n, a.d * b.d)
RDiv(a, b) == R(a.n * b.d, a.d * b.n)

\* numpy element-wise arithmetic; a length-1 array broadcasts as a scalar
ADiv(arr, s) == [i \in 1..Len(arr) |-> RDiv(arr[i], s)]
AMul(s, arr) == [i \in 1..Len(arr) |-> RMul(s, arr[i])]
AAdd(a, b) == [i \in 1..Len(a) |-> RAdd(a[i], b[i])]

\* a backscale is a number or, tagged arr, an array with a value for each
\* channel
IsArr(x) == "arr" \in DOMAIN x

\* numpy broadcasting of two one-dimensional arrays: equal lengths, or one
\* of them of length 1
Broadcasts(a, b) == Len(a) = Len(b) \/ Len(a) = 1 \/ Len(b) = 1
BLen(a, b) == IF Len(a) = 1 THEN Len(b) ELSE Len(a)
At(a, i) == IF Len(a) = 1 THEN a[1] ELSE a[i]
ADivArr(a, b) == [i \in 1..BLen(a, b) |-> RDiv(At(a, i), At(b, i))]
AMulArr(a, b) == [i \in 1..BLen(a, b) |-> RMul(At(a, i), At(b, i))]

\* ---------------------------------------------------------------- '%g'
Digit(i) == <<"0", "1", "2", "3", "4", "5", "6", "7", "8", "9">>[i + 1]

RECURSIVE IntStr(_)
IntStr(i) == IF i < 10 THEN Digit(i) ELSE IntStr(i \div 10) \o Digit(i % 10)

RECURSIVE Pow10(_)
Pow10(k) == IF k = 0 THEN 1 ELSE 10 * Pow10(k - 1)

RECURSIVE StripZeros(_)
StripZeros(i) == IF i # 0 /\ i % 10 = 0 THEN StripZeros(i \div 10) ELSE i

RECURSIVE NDigits(_)
NDigits(i) == IF i < 10 THEN 1 ELSE 1 + NDigits(i \div 10)

RECURSIVE ZeroPad(_)
ZeroPad(k) == IF k <= 0 THEN "" ELSE "0" \o ZeroPad(k - 1)

\* round n/d to the nearest integer, ties to even
RoundDiv(n, d) == LET q == n \div d
                      r == n % d
                  IN  IF 2 * r > d \/ (2 * r = d /\ q % 2 = 1) THEN q + 1 ELSE q

\* decimal exponent of a positive rational in 1e-4 <= v < 1e6
Exp10(v) == CHOOSE e \in -4..5 :
               IF e >= 0
               THEN Pow10(e) * v.d <= v.n /\ v.n < Pow10(e + 1) * v.d
               ELSE v.d <= v.n * Pow10(-e) /\ v.n * Pow10(-e) < 10 * v.d

\* Python's '%g' % v: six significant digits, fixed notation, trailing
\* zeros (and a bare decimal point) removed.  Defined for 1e-4 <= v < 1e6.
FormatG(v) ==
    IF v.n = 0 THEN "0"
    ELSE LET e0 == Exp10(v)
             m0 == IF e0 <= 5 /\ 5 - e0 >= 0
                   THEN RoundDiv(v.n * Pow10(5 - e0), v.d)
                   ELSE 0
             e == IF m0 = 1000000 THEN e0 + 1 ELSE e0
             m == IF m0 = 1000000 THEN 100000 ELSE m0
             ip == IF e >= 0 THEN m \div Pow10(5 - e) ELSE 0
             fp == IF e >= 0 THEN m % Pow10(5 - e) ELSE m
             fw == 5 - e
             fs == StripZeros(fp)
             lead == fw - NDigits(fp)
         IN  IF fp = 0 THEN IntStr(ip)
             ELSE IntStr(ip) \o "." \o ZeroPad(lead) \o IntStr(fs)

\* ------------------------------------------------------------- the data
\* the background identifiers in use
BkgIds == {1, 2}

\* exposure times and backscale values the source dataset can carry
ExposureVals == {R(1201, 1), R(6005, 2)}
BackscalVals == {R(1, 10), R(2, 5)}

\* the background datasets that can be attached
BkgData == {[exposure |-> R(1201, 1), backscal |-> R(1, 10)],
            [exposure |-> R(6005, 2), backscal |-> R(2, 5)]}

\* the background attached where one kind of background is enough
HeldBkg == [exposure |-> R(6005, 2), backscal |-> R(2, 5)]

\* the background of the example dataset: it comes without a response
ExampleBkg == [exposure |-> R(6005, 2), backscal |-> R(2, 5), rsp |-> FALSE]

\* a backscale with a value for each channel, and a background that has
\* one
ArrayBackscal == [arr |-> [i \in 1..MaxBins |-> IF i = 1 THEN R(1, 10) ELSE R(2, 5)]]
ArrayBkgData == {[exposure |-> R(6005, 2),
                  backscal |-> [arr |-> [i \in 1..MaxBins |-> IF i = 1 THEN R(2, 5) ELSE R(1, 10)]]]}

\* the dataset identifiers of the session: the integers 1 and 23 and the
\* string "one", written as strings; "None" is the argument left out
DataIds == {"1", "one", "23"}
IdVals == {"None"} \cup DataIds
DefaultId == "1"

\* the background identifier a call without bkg_id means
DefaultBkgId == 1

\* the functions returning a plot of the background
BkgPlotFuncs == {"get_bkg_plot", "get_bkg_model_plot", "get_bkg_fit_plot"}

\* the analysis settings
Quantities == {"channel", "energy", "wavelength"}

\* the edges, in keV, of the energy bins of the channels
_energies == <<R(1, 2), R(13, 20), R(3, 4), R(4, 5), R(9, 10)>>

\* h*c in keV Angstrom, to three figures
HC == R(62, 5)

\* the background model components of the session
Models == {"bcpt1", "bcpt2"}

\* the values the amplitude of a background model component is given
ParVals == {R(1, 10), R(2, 5)}

\* the parameter vectors a caller hands to calc
ParamVectors == {<<v>> : v \in ParVals}

\* the source model component
SrcAmpl == R(102, 1)

\* grids: sequences of bin widths
Grids == {[i \in 1..k |-> i] : k \in 1..MaxBins}

\* grids in energy or wavelength: the bins of a channel grid in the
\* opposite order
EnergyGrids == {[i \in 1..k |-> k + 1 - i] : k \in 2..MaxBins}

\* evaluating a constant model on a grid
ModelCall(ampl, G) == [i \in 1..Len(G) |-> RMul(ampl, R(G[i], 1))]

\* a model component whose evaluation raises
UserModel == "usermodel"

Ok(v) == [tag |-> "ok", val |-> v]
Err(code, arg) == [tag |-> "err", code |-> code, arg |-> arg]
IsErr(v) == v.tag = "err"

Idle == [op |-> "idle"]
NoPlot == [filled |-> FALSE]

\* the two kinds of flux histogram, and a FluxHistogram that holds
\* nothing: a field holds the shape of its array, and <<>> when it is None
FluxKinds == {"energy", "photon"}
NoFlux == [modelvals |-> <<>>, flux |-> <<>>, xlo |-> <<>>, xhi |-> <<>>, y |-> <<>>]

\* the num and bins arguments of a flux calculation: those of the tests
FluxArgs == {[num |-> 200, bins |-> 20],
             [num |-> 1000, bins |-> 19],
             [num |-> 1000, bins |-> 21]}

NoArgs == [num |-> 0, bins |-> 0]

\* the thawed parameters of the source model
NumPars == 3

\* the FluxHistogram of a calculation: num samples of the flux and of the
\* parameters, and the edges of bins bins
FluxHist(args) ==
    [modelvals |-> <<args.num, NumPars>>, flux |-> <<args.num>>,
     xlo |-> <<args.bins + 1>>, xhi |-> <<args.bins + 1>>, y |-> <<args.bins + 1>>]
NotBuilt == [built |-> FALSE]

VARIABLES
    subtracted,          \* data.subtracted
    exposure,            \* data.exposure
    backscal,            \* data.backscal
    background_ids,      \* data.background_ids: attached ids, in order
    backgrounds,         \* id -> [exposure, backscal] of the attached dataset
    background_sources,  \* session._background_sources.get(id): the dict
                         \* registered for the id, insertion ordered
    bsm,                 \* a BackgroundSumModel(data, mapping) a caller holds
    ids_at_init,         \* history: data.background_ids when bsm was built
    edits,               \* history: changes made since bsm was built
    pars,                \* model component -> the value of its ampl parameter
    has_rsp,             \* the dataset has a response (ARF/RMF) the session
                         \* can build resp from
    data_id,             \* the identifier the session holds the dataset under
    analysis,            \* data.units: the analysis setting of the dataset
    modelplot,           \* session._modelplot: the plot object get_model_plot
                         \* fills in and returns
    fluxplots,           \* session._energyfluxplot, session._photonfluxplot:
                         \* the flux histogram objects
    prev,                \* history: the last calc outcome before the latest
                         \* change, where evaluations are followed
    result               \* outcome of the last __init__/calc/add_response

vars == <<subtracted, exposure, backscal, background_ids, backgrounds,
          background_sources, bsm, ids_at_init, edits, pars, has_rsp,
          data_id, analysis, modelplot, fluxplots, prev, result>>

\* the amplitude a model component holds: what its own evaluation uses
ModelAmpl(m) == pars[m]

\* bmodel(*args, **kwargs): the array, or the error the model raises
ModelApply(bmodel, G) ==
    IF bmodel = UserModel THEN Err("ModelErr", bmodel)
    ELSE Ok(ModelCall(ModelAmpl(bmodel), G))

\* ------------------------------------------------------------ dict helpers
\* a dict is a sequence of [key, model] entries with distinct keys
RECURSIVE DictIndex(_, _)
DictIndex(d, k) ==
    IF d = <<>> THEN 0
    ELSE IF d[Len(d)].key = k /\ DictIndex(SubSeq(d, 1, Len(d) - 1), k) = 0
         THEN Len(d)
         ELSE DictIndex(SubSeq(d, 1, Len(d) - 1), k)

DictHas(d, k) == DictIndex(d, k) # 0
DictGet(d, k) == IF DictHas(d, k) THEN d[DictIndex(d, k)].model ELSE "None"
DictValues(d) == [i \in 1..Len(d) |-> d[i].model]
DictKeys(d) == {d[i].key : i \in 1..Len(d)}
DictSet(d, k, m) ==
    IF DictHas(d, k)
    THEN [d EXCEPT ![DictIndex(d, k)] = [key |-> k, model |-> m]]
    ELSE Append(d, [key |-> k, model |-> m])
DictPop(d, k) ==
    IF DictHas(d, k)
    THEN SubSeq(d, 1, DictIndex(d, k) - 1) \o SubSeq(d, DictIndex(d, k) + 1, Len(d))
    ELSE d

\* the dict the session holds for the id ({} when there is no entry)
Registered == IF background_sources.present THEN background_sources.items ELSE <<>>

\* ------------------------------------------- DataPHA.sum_background_data
\* arr / scale and scale * arr for a backscale: element by element when
\* the backscale is an array, numpy's ValueError when the shapes differ
DivScale(arr, scale) ==
    IF IsArr(scale)
    THEN IF Broadcasts(arr, scale.arr) THEN Ok(ADivArr(arr, scale.arr))
         ELSE Err("ValueError", 0)
    ELSE Ok(ADiv(arr, scale))
MulScale(scale, arr) ==
    IF IsArr(scale)
    THEN IF Broadcasts(arr, scale.arr) THEN Ok(AMulArr(scale.arr, arr))
         ELSE Err("ValueError", 0)
    ELSE Ok(AMul(scale, arr))

\* the per-background values: the callback's value for each attached
\* background, divided by that background's backscale and exposure
bdata_list(f) ==
    [i \in 1..Len(background_ids) |->
        LET key == background_ids[i]
            bkg == backgrounds[key]
            bdata == f[<<key, bkg>>]
            scaled == DivScale(bdata.val, bkg.backscal)
        IN  IF IsErr(bdata) THEN bdata
            ELSE IF IsErr(scaled) THEN scaled
            ELSE Ok(ADiv(scaled.val, bkg.exposure))]

RECURSIVE SumArrays(_)
SumArrays(l) == IF Len(l) = 1 THEN l[1].val
                ELSE AAdd(SumArrays(SubSeq(l, 1, Len(l) - 1)), l[Len(l)].val)

\* Sum f over the attached backgrounds, each scaled to the source's
\* exposure and backscale.  The callback f (a function of key and
\* background) runs for the attached ids in order, so its first failure is
\* the one raised.
sum_background_data(f) ==
    LET l == bdata_list(f)
        bad == {i \in 1..Len(l) : IsErr(l[i])}
    IN  IF bad # {} THEN l[CHOOSE i \in bad : \A j \in bad : i <= j]
        ELSE IF Len(l) = 0 THEN Err("nobkg", 0)
        ELSE LET bkgsum == MulScale(backscal, SumArrays(l))
             IN  IF IsErr(bkgsum) THEN bkgsum
                 ELSE Ok(AMul(exposure, bkgsum.val))

\* the calls of wrapped models a callback made to produce the value r
CallsOf(r) == IF "calls" \in DOMAIN r THEN r.calls ELSE <<>>

\* the calls of wrapped models made while sum_background_data(f) runs: f
\* is called once for each attached id, in order, up to its first failure
RECURSIVE callback_calls(_, _)
callback_calls(f, n) ==
    IF n = 0 THEN <<>>
    ELSE LET before == bdata_list(f)
             r == f[<<background_ids[n], backgrounds[background_ids[n]]>>]
         IN  IF \E i \in 1..(n - 1) : IsErr(before[i])
             THEN callback_calls(f, n - 1)
             ELSE callback_calls(f, n - 1) \o CallsOf(r)

\* --------------------------------------------------- BackgroundSumModel
RECURSIVE Join(_)
Join(names) == IF names = <<>> THEN ""
               ELSE IF Len(names) = 1 THEN names[1]
               ELSE Join(SubSeq(names, 1, Len(names) - 1)) \o " + " \o names[Len(names)]

\* the arguments a callback can be called with
CallbackArgs == BkgIds \X (BkgData \cup ArrayBkgData)

\* a callback that evaluates the background's model on a unit grid to
\* find the scale
unit_callback_eval ==
    [a \in CallbackArgs |->
        [tag |-> "ok", val |-> <<One>>,
         calls |-> <<[model |-> DictGet(Registered, a[1]), args |-> <<<<1>>>>]>>]]

\* lambda key, bkg: 1
unit_callback == [a \in CallbackArgs |-> Ok(<<One>>)]

\* CompositeModel.__init__(self, name, parts): records the name and a
\* tuple of the parts
CompositeModel_init(name, parts) == [built |-> TRUE, name |-> name, parts |-> parts]

\* __init__ taking the number of models as the scale
BackgroundSumModel_init_count(bkgmodels) ==
    LET scale_factor == sum_background_data(unit_callback)
        bkgnames == DictValues(bkgmodels)
        name == FormatG(R(Len(bkgnames), 1)) \o " * (" \o Join(bkgnames) \o ")"
    IN  IF IsErr(scale_factor) THEN scale_factor
        ELSE Ok(CompositeModel_init(name, DictValues(bkgmodels)))

\* __init__ checking at once that every attached background has a model
BackgroundSumModel_init_eager(bkgmodels) ==
    LET scale_factor == sum_background_data(unit_callback)
        bkgnames == DictValues(bkgmodels)
        name == FormatG(scale_factor.val[1]) \o " * (" \o Join(bkgnames) \o ")"
        nomodel == {i \in 1..Len(background_ids) : ~DictHas(bkgmodels, background_ids[i])}
    IN  IF IsErr(scale_factor) THEN scale_factor
        ELSE IF nomodel # {}
        THEN Err("bkgmodel", background_ids[CHOOSE i \in nomodel : \A j \in nomodel : i <= j])
        ELSE Ok(CompositeModel_init(name, DictValues(bkgmodels)))

\* the calls of wrapped models __init__ makes
BackgroundSumModel_init_calls(bkgmodels) ==
    callback_calls(unit_callback, Len(background_ids))

\* __init__ writing the first element of an array scale into the name
BackgroundSumModel_init_first(bkgmodels) ==
    LET scale_factor == sum_background_data(unit_callback)
        bkgnames == DictValues(bkgmodels)
        name == FormatG(scale_factor.val[1]) \o " * (" \o Join(bkgnames) \o ")"
    IN  IF IsErr(scale_factor) THEN scale_factor
        ELSE Ok(CompositeModel_init(name, DictValues(bkgmodels)))

\* __init__ counting in the scale only the backgrounds that have a model
BackgroundSumModel_init_keyed(bkgmodels) ==
    LET scale_factor == sum_background_data(
            [a \in CallbackArgs |->
                Ok(<<IF DictHas(bkgmodels, a[1]) THEN One ELSE Zero>>)])
        bkgnames == DictValues(bkgmodels)
        name == FormatG(scale_factor.val[1]) \o " * (" \o Join(bkgnames) \o ")"
    IN  IF IsErr(scale_factor) THEN scale_factor
        ELSE Ok(CompositeModel_init(name, DictValues(bkgmodels)))

\* BackgroundSumModel.__init__(self, srcdata, bkgmodels).  '%g' % x takes
\* a number or an array of one element; for a longer array it raises
\* TypeError.
BackgroundSumModel_init(bkgmodels) ==
    LET scale_factor == sum_background_data(unit_callback)
        bkgnames == DictValues(bkgmodels)
        name == FormatG(scale_factor.val[1]) \o " * (" \o Join(bkgnames) \o ")"
    IN  IF IsErr(scale_factor) THEN scale_factor
        ELSE IF Len(scale_factor.val) # 1 THEN Err("TypeError", 0)
        ELSE Ok(CompositeModel_init(name, DictValues(bkgmodels)))

\* eval_bkg_model taking the models in dict order instead of by key
eval_bkg_model_first(bkgmodels, p, G, key, bkg) ==
    IF bkgmodels = <<>> \/ ~DictHas(bkgmodels, key) THEN Err("bkgmodel", key)
    ELSE Ok(ModelCall(ModelAmpl(bkgmodels[1].model), G))

\* eval_bkg_model that skips a background without a model
eval_bkg_model_skip(bkgmodels, p, G, key, bkg) ==
    LET bmodel == DictGet(bkgmodels, key)
    IN  IF bmodel = "None" THEN Ok([i \in 1..Len(G) |-> Zero])
        ELSE Ok(ModelCall(ModelAmpl(bmodel), G))

\* eval_bkg_model that applies the background's exposure itself
eval_bkg_model_rate(bkgmodels, p, G, key, bkg) ==
    LET bmodel == DictGet(bkgmodels, key)
    IN  IF bmodel = "None" THEN Err("bkgmodel", key)
        ELSE Ok(AMul(bkg.exposure, ModelCall(ModelAmpl(bmodel), G)))

\* eval_bkg_model that hands p on to the model, ahead of the grid
eval_bkg_model_pfirst(bkgmodels, p, G, key, bkg) ==
    LET bmodel == DictGet(bkgmodels, key)
    IN  IF bmodel = "None" THEN Err("bkgmodel", key)
        ELSE [tag |-> "ok", val |-> ModelCall(ModelAmpl(bmodel), G),
              calls |-> <<[model |-> bmodel, args |-> <<p, G>>]>>]

\* eval_bkg_model that evaluates the model at the values calc was given
eval_bkg_model_p(bkgmodels, p, G, key, bkg) ==
    LET bmodel == DictGet(bkgmodels, key)
    IN  IF bmodel = "None" THEN Err("bkgmodel", key)
        ELSE [tag |-> "ok", val |-> ModelCall(p[1], G),
              calls |-> <<[model |-> bmodel, args |-> <<G>>]>>]

\* eval_bkg_model converting the grid to channels before the model sees it
eval_bkg_model_regrid(bkgmodels, p, G, key, bkg) ==
    LET bmodel == DictGet(bkgmodels, key)
        r == ModelApply(bmodel, [i \in 1..Len(G) |-> i])
    IN  IF bmodel = "None" THEN Err("bkgmodel", key)
        ELSE IF IsErr(r) THEN r
        ELSE [tag |-> "ok", val |-> r.val,
              calls |-> <<[model |-> bmodel, args |-> <<G>>]>>]

\* eval_bkg_model(key, bkg) inside calc(p, *args), for the grid arguments
\* G; p is in scope and not used
eval_bkg_model(bkgmodels, p, G, key, bkg) ==
    LET bmodel == DictGet(bkgmodels, key)
        r == ModelApply(bmodel, G)
    IN  IF bmodel = "None" THEN Err("bkgmodel", key)
        ELSE IF IsErr(r) THEN r
        ELSE [tag |-> "ok", val |-> r.val,
              calls |-> <<[model |-> bmodel, args |-> <<G>>]>>]

\* calc evaluating the entries of the dict as well whose key is not an
\* attached background, each added as it is
calc_every_entry(bkgmodels, p, G) ==
    LET cb == [a \in CallbackArgs |-> eval_bkg_model(bkgmodels, p, G, a[1], a[2])]
        base == sum_background_data(cb)
        extra == SelectSeq(bkgmodels,
                           LAMBDA e : \A j \in 1..Len(background_ids) :
                                         background_ids[j] # e.key)
    IN  IF IsErr(base) \/ extra = <<>> THEN base
        ELSE Ok(AAdd(base.val, ModelCall(ModelAmpl(extra[1].model), G)))

\* calc walking the keys of the dict and asking the dataset for each
calc_by_mapping(bkgmodels, p, G) ==
    LET cb == [a \in CallbackArgs |-> eval_bkg_model(bkgmodels, p, G, a[1], a[2])]
        unknown == {i \in 1..Len(bkgmodels) :
                       \A j \in 1..Len(background_ids) : background_ids[j] # bkgmodels[i].key}
    IN  IF unknown # {}
        THEN Err("IdentifierErr", bkgmodels[CHOOSE i \in unknown : \A j \in unknown : i <= j].key)
        ELSE sum_background_data(cb)

\* BackgroundSumModel.calc(self, p, *args, **kwargs), self.bkgmodels being
\* the dict the model was given
calc(bkgmodels, p, G) ==
    LET cb == [a \in CallbackArgs |-> eval_bkg_model(bkgmodels, p, G, a[1], a[2])]
    IN  sum_background_data(cb)

\* the calls of wrapped models one calc makes, in order
calc_calls(bkgmodels, p, G) ==
    LET cb == [a \in CallbackArgs |-> eval_bkg_model(bkgmodels, p, G, a[1], a[2])]
    IN  callback_calls(cb, Len(background_ids))

\* ---------------------------------------------------------- add_response
\* the bare source models a caller passes
SrcModels == {[kind |-> "model", name |-> "cpt", ampl |-> SrcAmpl],
              [kind |-> "model", name |-> "cpt2", ampl |-> One]}

\* model + BackgroundSumModel: a BinaryOpModel holding both operands
ModelAdd(lhs, rhs) == [kind |-> "add", lhs |-> lhs, rhs |-> rhs]

\* resp(model), resp being what session._get_response(id, data) returns
ResponseOf(model) == [kind |-> "resp", arg |-> model]

\* add_response that never folds the background models in
add_response_bare(model) == Ok(ResponseOf(model))

\* add_response without the test of data.subtracted
add_response_nosub(model) ==
    LET bkg_srcs == Registered
    IN  IF Len(bkg_srcs) # 0
        THEN LET b == BackgroundSumModel_init(bkg_srcs)
             IN  IF IsErr(b) THEN b
                 ELSE Ok(ResponseOf(ModelAdd(model, b.val)))
        ELSE Ok(ResponseOf(model))

\* add_response testing for an entry instead of counting its keys
add_response_entry(model) ==
    IF ~subtracted /\ background_sources.present
    THEN LET b == BackgroundSumModel_init(Registered)
         IN  IF IsErr(b) THEN b
             ELSE Ok(ResponseOf(ModelAdd(model, b.val)))
    ELSE Ok(ResponseOf(model))

\* session._get_response(id, data): the response of the dataset, an error
\* when the dataset has none
get_response == IF has_rsp THEN Ok("resp") ELSE Err("norsp", 0)

\* resp = session._get_response(id, data); return resp(model)
respond(model) ==
    LET resp == get_response
    IN  IF IsErr(resp) THEN resp ELSE Ok(ResponseOf(model))

\* add_response falling back to the bare model when the background model
\* cannot be built
add_response_fallback(model) ==
    IF ~subtracted
    THEN LET bkg_srcs == Registered
         IN  IF Len(bkg_srcs) # 0
             THEN LET b == BackgroundSumModel_init(bkg_srcs)
                  IN  IF IsErr(b) THEN respond(model)
                      ELSE respond(ModelAdd(model, b.val))
             ELSE respond(model)
    ELSE respond(model)

\* add_response looking first whether the dataset has a background
add_response_checked(model) ==
    IF ~subtracted /\ Len(background_ids) # 0
    THEN LET bkg_srcs == Registered
         IN  IF Len(bkg_srcs) # 0
             THEN LET b == BackgroundSumModel_init(bkg_srcs)
                  IN  IF IsErr(b) THEN b
                      ELSE respond(ModelAdd(model, b.val))
             ELSE respond(model)
    ELSE respond(model)

\* add_response(session, id, data, model)
add_response(model) ==
    IF ~subtracted
    THEN LET bkg_srcs == Registered
         IN  IF Len(bkg_srcs) # 0
             THEN LET b == BackgroundSumModel_init(bkg_srcs)
                  IN  IF IsErr(b) THEN b
                      ELSE respond(ModelAdd(model, b.val))
             ELSE respond(model)
    ELSE respond(model)

\* add_response asking for the response before it decides about the
\* background models
add_response_steps_early(model) ==
    IF ~subtracted /\ Len(Registered) # 0
    THEN <<"_get_response", "BackgroundSumModel">>
    ELSE <<"_get_response">>

\* what add_response asks for, in the order it asks: the construction of
\* a BackgroundSumModel when it folds the background models in, then, if
\* it got that far, the response of the session for (id, data)
add_response_steps(model) ==
    IF ~subtracted
    THEN LET bkg_srcs == Registered
         IN  IF Len(bkg_srcs) # 0
             THEN LET b == BackgroundSumModel_init(bkg_srcs)
                  IN  IF IsErr(b) THEN <<"BackgroundSumModel">>
                      ELSE <<"BackgroundSumModel", "_get_response">>
             ELSE <<"_get_response">>
    ELSE <<"_get_response">>

\* ------------------------------------------------ evaluating a model tree
\* the effective area the response multiplies each bin by
Arf(i) == <<R(4, 5), R(4, 5), R(9, 10), R(1, 1), R(11, 10)>>[i]
ApplyResponse(arr) == [i \in 1..Len(arr) |-> RMul(Arf(i), arr[i])]

\* calling a model expression on the grid G: a leaf evaluates itself, a
\* BackgroundSumModel runs calc against the dict it references, a sum adds
\* its operands bin by bin and a response folds its argument
RECURSIVE ModelEval(_, _)
ModelEval(m, G) ==
    IF "kind" \notin DOMAIN m
    THEN calc(Registered,
              [i \in 1..Len(m.parts) |->
                  IF m.parts[i] \in Models THEN ModelAmpl(m.parts[i]) ELSE Zero],
              G)
    ELSE IF m.kind = "model" THEN Ok(ModelCall(m.ampl, G))
    ELSE IF m.kind = "add"
         THEN LET l == ModelEval(m.lhs, G)
                  r == ModelEval(m.rhs, G)
              IN  IF IsErr(l) THEN l
                  ELSE IF IsErr(r) THEN r
                  ELSE Ok(AAdd(l.val, r.val))
    ELSE LET a == ModelEval(m.arg, G)
         IN  IF IsErr(a) THEN a ELSE Ok(ApplyResponse(a.val))

\* ------------------------------------------------------- the ui session
\* session._fix_id(id)
FixId(idval) == IF idval = "None" THEN DefaultId ELSE idval

\* session.get_bkg(id): the background of the dataset, under the default
\* background identifier
get_bkg(idval) ==
    IF FixId(idval) # data_id THEN Err("IdentifierErr", "data set")
    ELSE IF \A i \in 1..Len(background_ids) : background_ids[i] # DefaultBkgId
         THEN Err("IdentifierErr", "background data set")
         ELSE Ok(backgrounds[DefaultBkgId])

\* the axis labels of a model plot in an analysis setting
PlotLabels(quantity) ==
    IF quantity = "channel"
    THEN [xlabel |-> "Channel", ylabel |-> "Counts/sec/channel"]
    ELSE IF quantity = "wavelength"
         THEN [xlabel |-> "Wavelength (Angstrom)", ylabel |-> "Counts/sec/Angstrom"]
         ELSE [xlabel |-> "Energy (keV)", ylabel |-> "Counts/sec/keV"]

\* the edges of the bin of channel i in an analysis setting: wavelength is
\* hc / energy, edge by edge
PlotLo(quantity, i) ==
    IF quantity = "channel" THEN R(i, 1)
    ELSE IF quantity = "wavelength" THEN RDiv(HC, _energies[i])
    ELSE _energies[i]
PlotHi(quantity, i) ==
    IF quantity = "channel" THEN R(i + 1, 1)
    ELSE IF quantity = "wavelength" THEN RDiv(HC, _energies[i + 1])
    ELSE _energies[i + 1]

\* the predicted rate in channel i: the source model over the energy bin,
\* through the ARF
ModelRate(i) == RMul(Arf(i), RMul(SrcAmpl, RSub(_energies[i + 1], _energies[i])))

\* the model plot of the dataset in an analysis setting: one bin for each
\* channel, the rate divided by the width of the bin
model_plot(quantity) ==
    LET l == PlotLabels(quantity)
    IN  [filled |-> TRUE, xlabel |-> l.xlabel, ylabel |-> l.ylabel,
         xlo |-> [i \in 1..MaxBins |-> PlotLo(quantity, i)],
         xhi |-> [i \in 1..MaxBins |-> PlotHi(quantity, i)],
         y |-> [i \in 1..MaxBins |->
                   RDiv(ModelRate(i),
                        RAbs(RSub(PlotHi(quantity, i), PlotLo(quantity, i))))]]

\* the model plot of a background holding the model bmodel: as the model
\* plot of the source when the background has a response; without one the
\* model is seen on the channels as it is
bkg_model_plot(quantity, bkg, bmodel) ==
    LET q == IF bkg.rsp THEN quantity ELSE "channel"
        l == PlotLabels(q)
        rate(i) == IF bkg.rsp
                   THEN RMul(Arf(i), RMul(ModelAmpl(bmodel),
                                          RSub(_energies[i + 1], _energies[i])))
                   ELSE ModelAmpl(bmodel)
    IN  [filled |-> TRUE, xlabel |-> l.xlabel, ylabel |-> l.ylabel,
         xlo |-> [i \in 1..MaxBins |-> PlotLo(q, i)],
         xhi |-> [i \in 1..MaxBins |-> PlotHi(q, i)],
         y |-> [i \in 1..MaxBins |->
                   RDiv(rate(i), RAbs(RSub(PlotHi(q, i), PlotLo(q, i))))]]

\* get_bkg_plot, get_bkg_model_plot and get_bkg_fit_plot: each takes the
\* background first; the latter two need its model as well.  The model
\* plot of a background that is known to have a response or none is
\* filled in.
get_bkg_plotobj(gfunc, idval) ==
    LET bkg == get_bkg(idval)
    IN  IF IsErr(bkg) THEN bkg
        ELSE IF gfunc # "get_bkg_plot" /\ ~DictHas(Registered, DefaultBkgId)
             THEN Err("ModelErr", "background model")
             ELSE IF gfunc = "get_bkg_model_plot" /\ "rsp" \in DOMAIN bkg.val
                  THEN Ok(bkg_model_plot(analysis, bkg.val,
                                         DictGet(Registered, DefaultBkgId)))
                  ELSE Ok([plot |-> gfunc, exposure |-> bkg.val.exposure])

\* ------------------------------------------------------------ the machine
Init ==
    /\ subtracted = FALSE
    /\ exposure \in ExposureVals
    /\ backscal \in BackscalVals
    /\ background_ids = <<>>
    /\ backgrounds = <<>>
    /\ background_sources = [present |-> FALSE, items |-> <<>>]
    /\ bsm = NotBuilt
    /\ ids_at_init = <<>>
    /\ edits = 0
    /\ pars = [m \in Models |-> IF m = "bcpt1" THEN R(1, 10) ELSE R(2, 5)]
    /\ has_rsp = TRUE
    /\ data_id = DefaultId
    /\ analysis = "energy"
    /\ modelplot = NoPlot
    /\ fluxplots = [kind \in FluxKinds |-> NoFlux]
    /\ prev = Idle
    /\ result = Idle

\* bookkeeping shared by the operations that change the dataset or the
\* registry: the last outcome is forgotten and the change is counted.
\* Each of them is taken only when it changes something: a call that
\* stores the value already there is a stuttering step.
Edited ==
    /\ bsm.built => edits < MaxEdits
    /\ edits' = IF bsm.built THEN edits + 1 ELSE 0
    /\ result' = Idle

\* what DataPHA.set_background(bkg) stores: a background that comes
\* without a response takes the response of the source
set_background(bkg) ==
    IF "rsp" \in DOMAIN bkg THEN [bkg EXCEPT !.rsp = @ \/ has_rsp] ELSE bkg

\* DataPHA.set_background(bkg, id): attach (or replace) a background
SetBackground(key, bkg) ==
    /\ key \in DOMAIN backgrounds => backgrounds[key] # set_background(bkg)
    /\ background_ids' = IF \E i \in 1..Len(background_ids) : background_ids[i] = key
                         THEN background_ids
                         ELSE Append(background_ids, key)
    /\ backgrounds' = [k \in DOMAIN backgrounds \cup {key} |->
                          IF k = key THEN set_background(bkg) ELSE backgrounds[k]]
    /\ Edited
    /\ UNCHANGED <<subtracted, exposure, backscal, background_sources, bsm,
                   ids_at_init, pars, has_rsp, data_id, analysis, modelplot,
                   fluxplots>>

\* data.exposure = e
SetExposure(e) ==
    /\ e # exposure
    /\ exposure' = e
    /\ Edited
    /\ UNCHANGED <<subtracted, backscal, background_ids, backgrounds,
                   background_sources, bsm, ids_at_init, pars, has_rsp,
                   data_id, analysis, modelplot, fluxplots>>

\* data.backscal = b
SetBackscal(b) ==
    /\ b # backscal
    /\ backscal' = b
    /\ Edited
    /\ UNCHANGED <<subtracted, exposure, background_ids, backgrounds,
                   background_sources, bsm, ids_at_init, pars, has_rsp,
                   data_id, analysis, modelplot, fluxplots>>

\* ui.subtract() / ui.unsubtract(): data.subtracted = v
SetSubtracted(v) ==
    /\ v # subtracted
    /\ subtracted' = v
    /\ Edited
    /\ UNCHANGED <<exposure, backscal, background_ids, backgrounds,
                   background_sources, bsm, ids_at_init, pars, has_rsp,
                   data_id, analysis, modelplot, fluxplots>>

\* bmdl.ampl = v on a background model component
SetPar(m, v) ==
    /\ pars[m] # v
    /\ pars' = [pars EXCEPT ![m] = v]
    /\ Edited
    /\ UNCHANGED <<subtracted, exposure, backscal, background_ids, backgrounds,
                   background_sources, bsm, ids_at_init, has_rsp,
                   data_id, analysis, modelplot, fluxplots>>

\* the dataset gains or loses its response (ui.set_arf / ui.set_rmf, or a
\* dataset loaded without them)
SetResponse(v) ==
    /\ v # has_rsp
    /\ has_rsp' = v
    /\ Edited
    /\ UNCHANGED <<subtracted, exposure, backscal, background_ids, backgrounds,
                   background_sources, bsm, ids_at_init, pars,
                   data_id, analysis, modelplot, fluxplots>>

\* ui.set_bkg_model(id, model, bkg_id)
SetBkgModel(key, m) ==
    /\ DictGet(Registered, key) # m
    /\ background_sources' = [present |-> TRUE, items |-> DictSet(Registered, key, m)]
    /\ Edited
    /\ UNCHANGED <<subtracted, exposure, backscal, background_ids, backgrounds,
                   bsm, ids_at_init, pars, has_rsp,
                   data_id, analysis, modelplot, fluxplots>>

\* ui.delete_bkg_model(id, bkg_id): the entry for the id stays, maybe empty
DeleteBkgModel(key) ==
    /\ DictHas(Registered, key)
    /\ background_sources' = [present |-> TRUE, items |-> DictPop(Registered, key)]
    /\ Edited
    /\ UNCHANGED <<subtracted, exposure, backscal, background_ids, backgrounds,
                   bsm, ids_at_init, pars, has_rsp,
                   data_id, analysis, modelplot, fluxplots>>

\* construction that drops from the caller's dict the entries whose key is
\* not an attached background
Construct_prune ==
    /\ background_sources.present
    /\ LET b == BackgroundSumModel_init(Registered)
           attached(e) == \E i \in 1..Len(background_ids) : background_ids[i] = e.key
       IN  /\ result' = [op |-> "init", out |-> b,
                         calls |-> BackgroundSumModel_init_calls(Registered)]
           /\ bsm' = IF IsErr(b) THEN bsm ELSE b.val
           /\ ids_at_init' = IF IsErr(b) THEN ids_at_init ELSE background_ids
           /\ edits' = IF IsErr(b) THEN edits ELSE 0
           /\ background_sources' = [present |-> TRUE, items |-> SelectSeq(Registered, attached)]
    /\ UNCHANGED <<subtracted, exposure, backscal, background_ids, backgrounds,
                   pars, has_rsp, data_id, analysis, modelplot, fluxplots>>

\* a caller runs bsm = BackgroundSumModel(data, session's dict for the id)
Construct ==
    /\ background_sources.present
    /\ LET b == BackgroundSumModel_init(Registered)
       IN  /\ result' = [op |-> "init", out |-> b,
                         calls |-> BackgroundSumModel_init_calls(Registered)]
           /\ bsm' = IF IsErr(b) THEN bsm ELSE b.val
           /\ ids_at_init' = IF IsErr(b) THEN ids_at_init ELSE background_ids
           /\ edits' = IF IsErr(b) THEN edits ELSE 0
    /\ UNCHANGED <<subtracted, exposure, backscal, background_ids, backgrounds,
                   background_sources, pars, has_rsp,
                   data_id, analysis, modelplot, fluxplots>>

\* calc keeping its last array for the grid it was computed on
Calc_memo(p, G) ==
    /\ bsm.built
    /\ result' = [op |-> "calc", G |-> G,
                  out |-> IF prev.op = "calc" /\ prev.G = G THEN prev.out
                          ELSE calc(Registered, p, G),
                  calls |-> IF prev.op = "calc" /\ prev.G = G THEN <<>>
                            ELSE calc_calls(Registered, p, G)]
    /\ UNCHANGED <<subtracted, exposure, backscal, background_ids, backgrounds,
                   background_sources, bsm, ids_at_init, edits, pars, has_rsp,
                   data_id, analysis, modelplot, fluxplots>>

\* calc reading a copy of the dict taken when the model was built
Calc_copy(p, G) ==
    /\ bsm.built
    /\ LET d == IF prev.op = "init" THEN prev.items ELSE Registered
       IN  result' = [op |-> "calc", G |-> G, out |-> calc(d, p, G),
                      calls |-> calc_calls(d, p, G)]
    /\ UNCHANGED <<subtracted, exposure, backscal, background_ids, backgrounds,
                   background_sources, bsm, ids_at_init, edits, pars, has_rsp,
                   data_id, analysis, modelplot, fluxplots>>

\* a caller runs bsm.calc(p, G)
Calc(p, G) ==
    /\ bsm.built
    /\ result' = [op |-> "calc", G |-> G, out |-> calc(Registered, p, G),
                  calls |-> calc_calls(Registered, p, G)]
    /\ UNCHANGED <<subtracted, exposure, backscal, background_ids, backgrounds,
                   background_sources, bsm, ids_at_init, edits, pars, has_rsp,
                   data_id, analysis, modelplot, fluxplots>>

\* add_response creating the registry's entry for the id when it looks it
\* up (setdefault in place of get)
AddResponse_setdefault(model) ==
    /\ result' = [op |-> "add_response", model |-> model, out |-> add_response(model),
                  steps |-> add_response_steps(model)]
    /\ background_sources' = [present |-> TRUE, items |-> Registered]
    /\ UNCHANGED <<subtracted, exposure, backscal, background_ids, backgrounds,
                   bsm, ids_at_init, edits, pars, has_rsp,
                   data_id, analysis, modelplot, fluxplots>>

\* add_response keeping the model it built for the source model and
\* handing it out again
AddResponse_cached(model) ==
    /\ result' = [op |-> "add_response", model |-> model,
                  out |-> IF prev.op = "add_response" /\ prev.model = model
                          THEN prev.out ELSE add_response(model),
                  steps |-> add_response_steps(model)]
    /\ UNCHANGED <<subtracted, exposure, backscal, background_ids, backgrounds,
                   background_sources, bsm, ids_at_init, edits, pars, has_rsp,
                   data_id, analysis, modelplot, fluxplots>>

\* a caller runs add_response(session, id, data, model)
AddResponse(model) ==
    /\ result' = [op |-> "add_response", model |-> model, out |-> add_response(model),
                  steps |-> add_response_steps(model)]
    /\ UNCHANGED <<subtracted, exposure, backscal, background_ids, backgrounds,
                   background_sources, bsm, ids_at_init, edits, pars, has_rsp,
                   data_id, analysis, modelplot, fluxplots>>

\* setup_example_bkg in place of setup_example: the dataset comes with a
\* background attached
SetupExample_bkg(idval) ==
    /\ data_id' = FixId(idval)
    /\ analysis' = "channel"
    /\ subtracted' = FALSE
    /\ exposure' = R(1201, 1)
    /\ backscal' = R(1, 5)
    /\ background_ids' = <<DefaultBkgId>>
    /\ backgrounds' = [k \in {DefaultBkgId} |-> ExampleBkg]
    /\ background_sources' = [present |-> FALSE, items |-> <<>>]
    /\ bsm' = NotBuilt
    /\ ids_at_init' = <<>>
    /\ edits' = 0
    /\ has_rsp' = TRUE
    /\ modelplot' = NoPlot
    /\ result' = [op |-> "setup_example", idval |-> idval]
    /\ fluxplots' = [kind \in FluxKinds |-> NoFlux]
    /\ UNCHANGED pars

\* setup_example(idval) in a clean session: a new dataset with a response
\* and no background, held under idval or the default identifier
SetupExample(idval) ==
    /\ data_id' = FixId(idval)
    /\ analysis' = "channel"
    /\ subtracted' = FALSE
    /\ exposure' = R(1201, 1)
    /\ backscal' = R(1, 5)
    /\ background_ids' = <<>>
    /\ backgrounds' = <<>>
    /\ background_sources' = [present |-> FALSE, items |-> <<>>]
    /\ bsm' = NotBuilt
    /\ ids_at_init' = <<>>
    /\ edits' = 0
    /\ has_rsp' = TRUE
    /\ modelplot' = NoPlot
    /\ result' = [op |-> "setup_example", idval |-> idval]
    /\ fluxplots' = [kind \in FluxKinds |-> NoFlux]
    /\ UNCHANGED pars

\* example_pha_with_bkg_data whose d.set_background(b) leaves the background
\* without a response, as it came
ExamplePha_asis(direct) ==
    /\ data_id' = "None"
    /\ analysis' = "channel"
    /\ subtracted' = FALSE
    /\ exposure' = R(1201, 1)
    /\ backscal' = R(1, 5)
    /\ background_ids' = IF direct THEN <<DefaultBkgId>> ELSE <<>>
    /\ backgrounds' = IF direct
                      THEN [k \in {DefaultBkgId} |-> ExampleBkg]
                      ELSE <<>>
    /\ background_sources' = [present |-> FALSE, items |-> <<>>]
    /\ bsm' = NotBuilt
    /\ ids_at_init' = <<>>
    /\ edits' = 0
    /\ has_rsp' = TRUE
    /\ modelplot' = NoPlot
    /\ result' = [op |-> "example_pha_with_bkg_data", direct |-> direct]
    /\ fluxplots' = [kind \in FluxKinds |-> NoFlux]
    /\ UNCHANGED pars

\* d = example_pha_with_bkg_data(direct) in a clean session: a dataset
\* with a response that is not yet held by the session, the background
\* attached to it with d.set_background(b) when direct
ExamplePha(direct) ==
    /\ data_id' = "None"
    /\ analysis' = "channel"
    /\ subtracted' = FALSE
    /\ exposure' = R(1201, 1)
    /\ backscal' = R(1, 5)
    /\ background_ids' = IF direct THEN <<DefaultBkgId>> ELSE <<>>
    /\ backgrounds' = IF direct
                      THEN [k \in {DefaultBkgId} |-> set_background(ExampleBkg)]
                      ELSE <<>>
    /\ background_sources' = [present |-> FALSE, items |-> <<>>]
    /\ bsm' = NotBuilt
    /\ ids_at_init' = <<>>
    /\ edits' = 0
    /\ has_rsp' = TRUE
    /\ modelplot' = NoPlot
    /\ result' = [op |-> "example_pha_with_bkg_data", direct |-> direct]
    /\ fluxplots' = [kind \in FluxKinds |-> NoFlux]
    /\ UNCHANGED pars

\* ui.set_data(d) or ui.set_data(idval, d) for the dataset just made
SetData(idval) ==
    /\ data_id = "None"
    /\ data_id' = FixId(idval)
    /\ result' = [op |-> "set_data", idval |-> idval]
    /\ UNCHANGED <<subtracted, exposure, backscal, background_ids, backgrounds,
                   background_sources, bsm, ids_at_init, edits, pars, has_rsp,
                   analysis, modelplot, fluxplots>>

\* ui.set_bkg(b) or ui.set_bkg(idval, b): the dataset held under the
\* identifier is given the background, with its set_background
SetBkg(idval, bkg) ==
    /\ FixId(idval) = data_id
    /\ SetBackground(DefaultBkgId, bkg)

\* gfunc() or gfunc(idval) for one of the background plot functions
GetBkgPlot(gfunc, idval) ==
    /\ result' = [op |-> gfunc, idval |-> idval, out |-> get_bkg_plotobj(gfunc, idval)]
    /\ UNCHANGED <<subtracted, exposure, backscal, background_ids, backgrounds,
                   background_sources, bsm, ids_at_init, edits, pars, has_rsp,
                   data_id, analysis, modelplot, fluxplots>>

\* ui.set_analysis(quantity): the setting of the dataset, nothing else
SetAnalysis(quantity) ==
    /\ quantity # analysis
    /\ analysis' = quantity
    /\ result' = [op |-> "set_analysis", quantity |-> quantity]
    /\ UNCHANGED <<subtracted, exposure, backscal, background_ids, backgrounds,
                   background_sources, bsm, ids_at_init, edits, pars, has_rsp,
                   data_id, modelplot, fluxplots>>

\* get_model_plot filling in the x axis only when the plot object has none
GetModelPlot_stale ==
    /\ data_id = DefaultId
    /\ modelplot' = IF modelplot.filled
                    THEN [model_plot(analysis) EXCEPT !.xlo = modelplot.xlo,
                                                      !.xhi = modelplot.xhi]
                    ELSE model_plot(analysis)
    /\ result' = [op |-> "get_model_plot", out |-> modelplot']
    /\ UNCHANGED <<subtracted, exposure, backscal, background_ids, backgrounds,
                   background_sources, bsm, ids_at_init, edits, pars, has_rsp,
                   data_id, analysis, fluxplots>>

\* copy.deepcopy(ui.get_model_plot()): the session's plot object is filled
\* in for the current setting and the caller keeps a copy
GetModelPlot ==
    /\ data_id = DefaultId
    /\ modelplot' = model_plot(analysis)
    /\ result' = [op |-> "get_model_plot", out |-> modelplot']
    /\ UNCHANGED <<subtracted, exposure, backscal, background_ids, backgrounds,
                   background_sources, bsm, ids_at_init, edits, pars, has_rsp,
                   data_id, analysis, fluxplots>>

\* get_energy_flux_hist / get_photon_flux_hist running the calculation
\* whatever recalc says
GetFluxHist_calc(kind, args, recalc) ==
    /\ fluxplots' = [fluxplots EXCEPT ![kind] = FluxHist(args)]
    /\ result' = [op |-> "get_flux_hist", kind |-> kind, args |-> args,
                  recalc |-> recalc, out |-> fluxplots'[kind]]
    /\ UNCHANGED <<subtracted, exposure, backscal, background_ids, backgrounds,
                   background_sources, bsm, ids_at_init, edits, pars, has_rsp,
                   data_id, analysis, modelplot>>

\* ui.get_energy_flux_hist(num, bins, recalc) / ui.get_photon_flux_hist:
\* the histogram object of the kind, filled in first when recalc
GetFluxHist(kind, args, recalc) ==
    /\ fluxplots' = IF recalc THEN [fluxplots EXCEPT ![kind] = FluxHist(args)]
                    ELSE fluxplots
    /\ result' = [op |-> "get_flux_hist", kind |-> kind, args |-> args,
                  recalc |-> recalc, out |-> fluxplots'[kind]]
    /\ UNCHANGED <<subtracted, exposure, backscal, background_ids, backgrounds,
                   background_sources, bsm, ids_at_init, edits, pars, has_rsp,
                   data_id, analysis, modelplot>>

\* plot_energy_flux / plot_photon_flux running the calculation whatever
\* recalc says
PlotFlux_calc(kind, args, recalc) ==
    /\ fluxplots' = [fluxplots EXCEPT ![kind] = FluxHist(args)]
    /\ result' = [op |-> "plot_flux", kind |-> kind, args |-> args,
                  recalc |-> recalc]
    /\ UNCHANGED <<subtracted, exposure, backscal, background_ids, backgrounds,
                   background_sources, bsm, ids_at_init, edits, pars, has_rsp,
                   data_id, analysis, modelplot>>

\* ui.plot_energy_flux(num, bins, recalc) / ui.plot_photon_flux: the
\* histogram object of the kind is taken as get_*_flux_hist gives it and
\* drawn
PlotFlux(kind, args, recalc) ==
    /\ fluxplots' = IF recalc THEN [fluxplots EXCEPT ![kind] = FluxHist(args)]
                    ELSE fluxplots
    /\ result' = [op |-> "plot_flux", kind |-> kind, args |-> args,
                  recalc |-> recalc]
    /\ UNCHANGED <<subtracted, exposure, backscal, background_ids, backgrounds,
                   background_sources, bsm, ids_at_init, edits, pars, has_rsp,
                   data_id, analysis, modelplot>>

\* A caller holding a BackgroundSumModel while the dataset and the
\* registry change: construction, evaluation and every change the model
\* can see through its references.  Evaluations are not followed here.
Next ==
    \/ \E key \in BkgIds, bkg \in BkgData : SetBackground(key, bkg) /\ UNCHANGED prev
    \/ \E e \in ExposureVals : SetExposure(e) /\ UNCHANGED prev
    \/ \E b \in BackscalVals : SetBackscal(b) /\ UNCHANGED prev
    \/ \E key \in BkgIds, m \in Models : SetBkgModel(key, m) /\ UNCHANGED prev
    \/ \E key \in BkgIds : DeleteBkgModel(key) /\ UNCHANGED prev
    \/ Construct /\ UNCHANGED prev
    \/ \E p \in ParamVectors, G \in Grids : Calc(p, G) /\ UNCHANGED prev

Spec == Init /\ [][Next]_vars

\* The session calling add_response while the dataset (its subtracted flag
\* included) and the registry change.
NextResponse ==
    \/ \E key \in BkgIds, bkg \in BkgData : SetBackground(key, bkg) /\ UNCHANGED prev
    \/ \E e \in ExposureVals : SetExposure(e) /\ UNCHANGED prev
    \/ \E b \in BackscalVals : SetBackscal(b) /\ UNCHANGED prev
    \/ \E v \in BOOLEAN : SetSubtracted(v) /\ UNCHANGED prev
    \/ \E key \in BkgIds, m \in Models : SetBkgModel(key, m) /\ UNCHANGED prev
    \/ \E key \in BkgIds : DeleteBkgModel(key) /\ UNCHANGED prev
    \/ \E model \in SrcModels : AddResponse(model) /\ UNCHANGED prev

SpecResponse == Init /\ [][NextResponse]_vars

\* history of the evaluations of the held model: a change keeps the
\* outcome of the calc that ran right before it, with the exposures and
\* backscales that calc saw; a construction starts anew
Remember ==
    prev' = IF result.op = "calc"
            THEN [op |-> "calc", G |-> result.G, out |-> result.out,
                  exposure |-> exposure, backscal |-> backscal,
                  backgrounds |-> backgrounds]
            ELSE prev
Forget == prev' = Idle

\* A caller evaluating one held BackgroundSumModel again and again while
\* the exposure and backscale of the source and of its background (one
\* background, identifier 1) and the parameters of the wrapped models
\* change.
NextEval ==
    \/ \E bkg \in BkgData : SetBackground(1, bkg) /\ Remember
    \/ \E e \in ExposureVals : SetExposure(e) /\ Remember
    \/ \E b \in BackscalVals : SetBackscal(b) /\ Remember
    \/ \E m \in Models, v \in ParVals : SetPar(m, v) /\ Remember
    \/ \E m \in Models : SetBkgModel(1, m) /\ Remember
    \/ Construct /\ Forget
    \/ \E p \in ParamVectors, G \in Grids : Calc(p, G) /\ UNCHANGED prev

SpecEval == Init /\ [][NextEval]_vars

\* The ways a construction, an evaluation or add_response can fail: a
\* dataset whose background (identifier 1) comes and goes, a registry that
\* may hold a model that raises, a dataset that may have no response.
NextFail ==
    \/ \E bkg \in BkgData : SetBackground(1, bkg) /\ UNCHANGED prev
    \/ \E v \in BOOLEAN : SetSubtracted(v) /\ UNCHANGED prev
    \/ \E v \in BOOLEAN : SetResponse(v) /\ UNCHANGED prev
    \/ \E m \in Models \cup {UserModel} : SetBkgModel(1, m) /\ UNCHANGED prev
    \/ DeleteBkgModel(1) /\ UNCHANGED prev
    \/ Construct /\ UNCHANGED prev
    \/ \E p \in ParamVectors, G \in Grids : Calc(p, G) /\ UNCHANGED prev
    \/ \E model \in SrcModels : AddResponse(model) /\ UNCHANGED prev

SpecFail == Init /\ [][NextFail]_vars

\* A held BackgroundSumModel evaluated on channel and on energy grids
\* while the backscale of the source or of its background (identifier 1)
\* becomes an array with a value for each channel.
NextArray ==
    \/ \E bkg \in BkgData \cup ArrayBkgData : SetBackground(1, bkg) /\ UNCHANGED prev
    \/ \E b \in BackscalVals \cup {ArrayBackscal} : SetBackscal(b) /\ UNCHANGED prev
    \/ \E m \in Models : SetBkgModel(1, m) /\ UNCHANGED prev
    \/ Construct /\ UNCHANGED prev
    \/ \E p \in ParamVectors, G \in Grids \cup EnergyGrids : Calc(p, G) /\ UNCHANGED prev

SpecArray == Init /\ [][NextArray]_vars

\* history of the model plots: the first plot made in the energy setting
\* is kept, with the other settings a plot was made in since.  (A set-up
\* is kept as it was recorded until the dataset changes or a model plot
\* is remembered.)
RememberPlot ==
    prev' = IF analysis = "energy"
            THEN IF prev.op = "get_model_plot" THEN prev
                 ELSE [op |-> "get_model_plot", out |-> result'.out, seen |-> {}]
            ELSE IF prev.op = "get_model_plot"
                 THEN [prev EXCEPT !.seen = @ \cup {analysis}]
                 ELSE prev

\* The plot functions of the ui session on a dataset set up as the tests
\* do, while a background and its model come and the analysis setting
\* changes.
NextPlot ==
    \/ \E idval \in IdVals : SetupExample(idval) /\ prev' = result'
    \/ \E key \in BkgIds : SetBackground(key, ExampleBkg) /\ Forget
    \/ SetBkgModel(DefaultBkgId, "bcpt1") /\ Forget
    \/ \E gfunc \in BkgPlotFuncs, idval \in IdVals :
           GetBkgPlot(gfunc, idval) /\ UNCHANGED prev
    \/ \E quantity \in Quantities : SetAnalysis(quantity) /\ UNCHANGED prev
    \/ GetModelPlot /\ RememberPlot

SpecPlot == Init /\ [][NextPlot]_vars

\* The two ways the tests give a dataset its background, before it is
\* handed to the session or through the session afterwards, followed by the
\* background model, the analysis setting and the plot of the background
\* model.
NextBkgModel ==
    \/ \E direct \in BOOLEAN : ExamplePha(direct) /\ prev' = result'
    \/ \E idval \in IdVals : SetData(idval) /\ UNCHANGED prev
    \/ \E idval \in IdVals : SetBkg(idval, ExampleBkg) /\ UNCHANGED prev
    \/ \E m \in Models : SetBkgModel(DefaultBkgId, m) /\ UNCHANGED prev
    \/ \E quantity \in {"channel", "energy"} : SetAnalysis(quantity) /\ UNCHANGED prev
    \/ \E idval \in IdVals :
           GetBkgPlot("get_bkg_model_plot", idval) /\ UNCHANGED prev

SpecBkgModel == Init /\ [][NextBkgModel]_vars

\* history of the flux calculations: for each kind the arguments of the
\* latest call that ran the calculation
RememberFlux ==
    prev' = IF result'.recalc
            THEN [op |-> "flux",
                  calc |-> [k \in FluxKinds |->
                               IF k = result'.kind THEN result'.args
                               ELSE IF prev.op = "flux" THEN prev.calc[k]
                               ELSE NoArgs]]
            ELSE prev

\* The flux histograms of the session: plots and gets of either kind, with
\* and without recalc.
NextFlux ==
    \/ \E kind \in FluxKinds, args \in FluxArgs, recalc \in BOOLEAN :
           PlotFlux(kind, args, recalc) /\ RememberFlux
    \/ \E kind \in FluxKinds, args \in FluxArgs, recalc \in BOOLEAN :
           GetFluxHist(kind, args, recalc) /\ RememberFlux

SpecFlux == Init /\ [][NextFlux]_vars

\* history of the construction of the held model: the dataset and the
\* dict as they were when it was built
RememberInit ==
    prev' = IF IsErr(result'.out) THEN prev
            ELSE [op |-> "init", exposure |-> exposure, backscal |-> backscal,
                  backgrounds |-> backgrounds, ids |-> background_ids,
                  items |-> Registered]

\* A caller holding a BackgroundSumModel over the session's own dict while
\* backgrounds (all alike) are attached under either identifier, the
\* exposure and the backscale of the source change and models are
\* registered, replaced and removed.
NextHeld ==
    \/ \E key \in BkgIds : SetBackground(key, HeldBkg) /\ UNCHANGED prev
    \/ \E e \in ExposureVals : SetExposure(e) /\ UNCHANGED prev
    \/ \E b \in BackscalVals : SetBackscal(b) /\ UNCHANGED prev
    \/ \E key \in BkgIds, m \in Models : SetBkgModel(key, m) /\ UNCHANGED prev
    \/ \E key \in BkgIds : DeleteBkgModel(key) /\ UNCHANGED prev
    \/ Construct /\ RememberInit
    \/ \E p \in ParamVectors, G \in Grids : Calc(p, G) /\ UNCHANGED prev

SpecHeld == Init /\ [][NextHeld]_vars

\* history of the add_response calls: a change of the registry or of the
\* dataset keeps the outcome of the call that ran right before it, with
\* the registry that call saw
RememberResponse ==
    prev' = IF result.op = "add_response"
            THEN [op |-> "add_response", model |-> result.model,
                  out |-> result.out, items |-> Registered]
            ELSE prev

\* The session calling add_response again and again for one dataset
\* while background models are registered, replaced and removed.
NextAgain ==
    \/ SetBackground(1, HeldBkg) /\ RememberResponse
    \/ \E key \in BkgIds, m \in Models : SetBkgModel(key, m) /\ RememberResponse
    \/ \E key \in BkgIds : DeleteBkgModel(key) /\ RememberResponse
    \/ \E model \in SrcModels : AddResponse(model) /\ UNCHANGED prev

SpecAgain == Init /\ [][NextAgain]_vars

\* ================================================================ claims
\* what the claims speak of, written down independently of the code path
Attached == {background_ids[i] : i \in 1..Len(background_ids)}
Missing == {k \in Attached : ~DictHas(Registered, k)}
FirstMissing == background_ids[CHOOSE i \in 1..Len(background_ids) :
                    /\ background_ids[i] \in Missing
                    /\ \A j \in 1..(i - 1) : background_ids[j] \notin Missing]

\* the exposure/backscale ratio of the attached background k
Ratio(k) == RMul(RDiv(exposure, backgrounds[k].exposure),
                 RDiv(backscal, backgrounds[k].backscal))

\* ratio * model(G) for the attached background k, its model taken from d
Scaled(d, k, G) == AMul(Ratio(k), ModelCall(ModelAmpl(DictGet(d, k)), G))

RECURSIVE WeightedSum(_, _, _)
WeightedSum(d, S, G) ==
    IF S = {} THEN [i \in 1..Len(G) |-> Zero]
    ELSE LET k == CHOOSE x \in S : TRUE
         IN  AAdd(Scaled(d, k, G), WeightedSum(d, S \ {k}, G))

RECURSIVE RatioSum(_)
RatioSum(S) == IF S = {} THEN Zero
               ELSE LET k == CHOOSE x \in S : TRUE
                    IN  RAdd(Ratio(k), RatioSum(S \ {k}))

IsAddResponse == result.op = "add_response"
IsCalc == result.op = "calc"
IsInit == result.op = "init"

\* response(bare model)
BareResponse == Ok([kind |-> "resp", arg |-> result.model])

C2_SubtractedIsBare ==
    (IsAddResponse /\ subtracted) =>
        /\ result.out = BareResponse
        /\ \A G \in Grids :
              ModelEval(result.out.val, G) =
                 Ok(ApplyResponse(ModelCall(result.model.ampl, G)))

C2_Witness ==
    /\ IsAddResponse /\ subtracted
    /\ Len(Registered) >= 1 /\ Attached # {} /\ Missing = {}

\* C3: for a dataset that is not subtracted, when no background model is
\* registered for the id (no entry, or an empty mapping) add_response
\* returns response(bare model), as it does for a subtracted dataset.
C3_NoModelsIsBare ==
    (IsAddResponse /\ ~subtracted /\ Len(Registered) = 0) =>
        /\ result.out = BareResponse
        /\ \A G \in Grids :
              ModelEval(result.out.val, G) =
                 Ok(ApplyResponse(ModelCall(result.model.ampl, G)))

C3_Witness ==
    /\ IsAddResponse /\ ~subtracted
    /\ background_sources.present /\ background_sources.items = <<>>
    /\ Attached # {}

\* the dict with its entries inserted in the opposite order
RECURSIVE Reversed(_)
Reversed(d) == IF d = <<>> THEN <<>>
               ELSE Append(Reversed(SubSeq(d, 2, Len(d))), d[1])

\* C4: with exactly one background attached (scalar exposure, backscale),
\* calc on G gives ratio * background_model(G) in every bin, where ratio =
\* (src exposure / bkg exposure) * (src backscale / bkg backscale); equal
\* exposure and backscale give ratio 1; source 1201.0 / 0.1 against
\* background 1201.0*2.5 / 0.4 with a model value of 0.1 gives 0.01.
C4_SingleBackground ==
    (IsCalc /\ Len(background_ids) = 1 /\ Missing = {}) =>
        LET k == background_ids[1]
            bkg == backgrounds[k]
            bg == ModelCall(ModelAmpl(DictGet(Registered, k)), result.G)
        IN  /\ ~IsErr(result.out)
            /\ Len(result.out.val) = Len(result.G)
            /\ \A i \in 1..Len(result.G) :
                  result.out.val[i] = RMul(Ratio(k), bg[i])
            /\ (bkg.exposure = exposure /\ bkg.backscal = backscal) =>
                  result.out.val = bg
            /\ (/\ exposure = R(1201, 1) /\ backscal = R(1, 10)
                /\ bkg.exposure = R(6005, 2) /\ bkg.backscal = R(2, 5)) =>
                  \A i \in 1..Len(result.G) :
                     /\ result.out.val[i] = RMul(R(1, 10), bg[i])
                     /\ bg[i] = R(1, 10) => result.out.val[i] = R(1, 100)

C4_Witness ==
    /\ IsCalc /\ Len(background_ids) = 1 /\ Missing = {}
    /\ exposure = R(1201, 1) /\ backscal = R(1, 10)
    /\ backgrounds[background_ids[1]] = [exposure |-> R(6005, 2), backscal |-> R(2, 5)]
    /\ DictGet(Registered, background_ids[1]) = "bcpt1"
    /\ result.out = Ok(<<R(1, 100)>>)

\* C5: with two backgrounds attached, of ratios r1 and r2, calc on G gives
\* r1*bg1(G) + r2*bg2(G), and gives the same for both insertion orders of
\* the two entries of bkgmodels.
C5_TwoBackgrounds ==
    (IsCalc /\ Len(background_ids) = 2 /\ Missing = {}) =>
        LET k1 == background_ids[1]
            k2 == background_ids[2]
        IN  /\ result.out = Ok(AAdd(Scaled(Registered, k1, result.G),
                                    Scaled(Registered, k2, result.G)))
            /\ \A p \in ParamVectors :
                  calc(Reversed(Registered), p, result.G) = result.out

C5_Witness ==
    /\ IsCalc /\ Len(background_ids) = 2 /\ Missing = {}
    /\ Ratio(background_ids[1]) # Ratio(background_ids[2])
    /\ DictGet(Registered, 1) # DictGet(Registered, 2)
    /\ ~IsErr(result.out)

\* C6: evaluating when some attached background identifier has no entry
\* in bkgmodels fails with the missing-background-model error (DataErr
\* 'bkgmodel') carrying that identifier; no array is returned.
C6_MissingModelError ==
    (IsCalc /\ Missing # {}) =>
        /\ IsErr(result.out)
        /\ result.out.code = "bkgmodel"
        /\ result.out.arg \in Missing
        /\ result.out.arg = FirstMissing

C6_Witness ==
    /\ IsCalc /\ Missing # {} /\ Attached \ Missing # {}
    /\ result.out = Err("bkgmodel", FirstMissing)

\* C7: constructing BackgroundSumModel(S, {}) with an empty mapping fails
\* at construction with a configuration error, for every source dataset
\* S, also one with backgrounds attached.
C7_EmptyMappingRejected ==
    (IsInit /\ Registered = <<>>) => IsErr(result.out)

\* C8: a successfully constructed BackgroundSumModel with a non-empty
\* mapping is named '<scale> * (<name1> + <name2> + ...)': the names of
\* the mapping's models in mapping order joined by ' + ', the scale the
\* sum of the per-background exposure/backscale ratios.
C8_Name ==
    (IsInit /\ ~IsErr(result.out) /\ Registered # <<>>) =>
        LET names == [i \in 1..Len(Registered) |-> Registered[i].model]
            scale == RatioSum(Attached)
        IN  /\ result.out.val.name = FormatG(scale) \o " * (" \o Join(names) \o ")"
            /\ (scale = R(11, 10) /\ names = <<"bcpt2", "bcpt1">>) =>
                  result.out.val.name = "1.1 * (bcpt2 + bcpt1)"
            /\ (scale = R(1, 10) /\ names = <<"bcpt1">>) =>
                  result.out.val.name = "0.1 * (bcpt1)"
            /\ (scale = R(11, 4) /\ names = <<"bcpt1", "bcpt2">>) =>
                  result.out.val.name = "2.75 * (bcpt1 + bcpt2)"
            /\ (scale = R(2, 1) /\ names = <<"bcpt2">>) =>
                  result.out.val.name = "2 * (bcpt2)"

C8_Witness ==
    /\ IsInit /\ ~IsErr(result.out)
    /\ Len(background_ids) = 2
    /\ result.out.val.name = "1.1 * (bcpt2 + bcpt1)"

\* C9: missing-key validation is lazy.  Construction succeeds although
\* the mapping lacks a model for an attached background; and when a
\* background is attached after the model was built (its earlier
\* backgrounds all having models) the next evaluation fails with the
\* missing-background-model error for the newly attached key.
AttachedLater == {background_ids[i] : i \in (Len(ids_at_init) + 1)..Len(background_ids)}

C9_LazyValidation ==
    /\ (IsInit /\ Attached # {}) => ~IsErr(result.out)
    /\ (IsCalc /\ AttachedLater # {} /\ Missing # {} /\ Missing \subseteq AttachedLater) =>
          /\ bsm.built
          /\ IsErr(result.out)
          /\ result.out.code = "bkgmodel"
          /\ result.out.arg \in AttachedLater

C9_Witness ==
    /\ IsCalc /\ bsm.built
    /\ ids_at_init # <<>> /\ AttachedLater # {}
    /\ Missing = AttachedLater
    /\ IsErr(result.out) /\ result.out.arg \in AttachedLater

\* C10 (as stated): when bkgmodels has a key that is not a background
\* attached to the source dataset, using the model fails (with an
\* identifier-not-found condition); the key is never silently ignored.
\* Stated here for any failure at all, which the claim implies.
Unattached == DictKeys(Registered) \ Attached

C10_AsStated ==
    (IsCalc /\ Unattached # {}) => IsErr(result.out)

\* C10 (amended): a key of bkgmodels that is not a background attached to
\* the source dataset is never looked up in the dataset: no
\* identifier-not-found condition arises, and calc gives what it gives
\* for the mapping without that key.
RECURSIVE OnlyAttached(_)
OnlyAttached(d) ==
    IF d = <<>> THEN <<>>
    ELSE IF d[1].key \in Attached
         THEN <<d[1]>> \o OnlyAttached(SubSeq(d, 2, Len(d)))
         ELSE OnlyAttached(SubSeq(d, 2, Len(d)))

C10_UnattachedKeyIgnored ==
    (IsCalc /\ Unattached # {}) =>
        /\ IsErr(result.out) => result.out.code = "bkgmodel"
        /\ Missing = {} =>
              result.out = Ok(WeightedSum(OnlyAttached(Registered), Attached, result.G))

C10_Witness ==
    /\ IsCalc /\ Unattached # {} /\ Missing = {}
    /\ ~IsErr(result.out)

\* C11 (as stated): nothing derived from exposure or backscale is cached.
\* When exposures or backscales changed between two evaluations of one
\* BackgroundSumModel, the second evaluation uses the values current at
\* its time, and the aggregate scaling the instance holds (the scale in
\* its name) is likewise the one of the current metadata.
MetadataChanged ==
    /\ prev.op = "calc"
    /\ <<prev.exposure, prev.backscal, prev.backgrounds>> # <<exposure, backscal, backgrounds>>

C11_AsStated ==
    (IsCalc /\ bsm.built /\ MetadataChanged /\ Missing = {}) =>
        /\ result.out = Ok(WeightedSum(Registered, Attached, result.G))
        /\ bsm.name = FormatG(RatioSum(Attached)) \o " * (" \o Join(bsm.parts) \o ")"

\* C11 (amended): no exposure or backscale that an evaluation uses is
\* cached.  When exposures or backscales changed between two evaluations
\* of one BackgroundSumModel, the second evaluation gives the weighted sum
\* for the exposures and backscales current at its time (recomputing every
\* ratio): in every bin, with one background attached, (source exposure /
\* background exposure) * (source backscale / background backscale) * the
\* model's value, all taken as they are at the second evaluation.
C11_EvaluationUsesCurrent ==
    (IsCalc /\ bsm.built /\ MetadataChanged /\ Missing = {}) =>
        /\ result.out = Ok(WeightedSum(Registered, Attached, result.G))
        /\ \A k \in Attached, i \in 1..Len(result.G) :
              Len(background_ids) = 1 =>
                 result.out.val[i] =
                    RMul(RMul(RDiv(exposure, backgrounds[k].exposure),
                              RDiv(backscal, backgrounds[k].backscal)),
                         RMul(pars[DictGet(Registered, k)], R(result.G[i], 1)))

C11_Witness ==
    /\ IsCalc /\ bsm.built /\ MetadataChanged /\ Missing = {}
    /\ prev.G = result.G /\ ~IsErr(prev.out) /\ ~IsErr(result.out)
    /\ prev.out # result.out
    /\ prev.backgrounds # backgrounds
    /\ bsm.name # FormatG(RatioSum(Attached)) \o " * (" \o Join(bsm.parts) \o ")"

\* C12: constructing and evaluating a BackgroundSumModel leaves the source
\* dataset (exposure, backscale, attached backgrounds and their exposure
\* and backscale, subtracted flag), the bkgmodels mapping and the
\* parameters of every wrapped model unchanged: every __init__ step and
\* every calc step, failing or not, changes none of them.
C12_OnlyReferences ==
    [][(result'.op \in {"init", "calc"}) =>
          UNCHANGED <<subtracted, exposure, backscal, background_ids, backgrounds,
                      background_sources, pars, has_rsp>>]_vars

C12_Witness ==
    /\ IsCalc /\ bsm.built /\ ~IsErr(result.out)
    /\ Len(background_ids) = 2 /\ Len(Registered) = 2
    /\ bsm.parts = DictValues(Registered)

\* C13: constructing a BackgroundSumModel evaluates none of the wrapped
\* background models: the calls of models made during __init__ number
\* zero, whether it succeeds or fails.
C13_InitEvaluatesNothing ==
    IsInit => Len(result.calls) = 0

C13_Witness ==
    /\ IsInit /\ ~IsErr(result.out)
    /\ Len(background_ids) = 2 /\ Missing = {}
    /\ result.calls = <<>>

\* C14: the result of calc(p, *args) does not depend on p: in the same
\* state and on the same grid every parameter vector gives the array (or
\* the error) that the call gave, the wrapped models being evaluated at
\* the values they hold themselves; and a calc step leaves the parameters
\* of every wrapped model as they were.
C14_IgnoresParameterVector ==
    [][(result'.op = "calc") =>
          /\ pars' = pars
          /\ \A q \in ParamVectors :
                /\ calc(Registered, q, result'.G) = result'.out
                /\ calc_calls(Registered, q, result'.G) = result'.calls
          /\ (Len(background_ids) = 1 /\ Missing = {}) =>
                result'.out =
                   Ok(AMul(Ratio(background_ids[1]),
                           ModelCall(pars[DictGet(Registered, background_ids[1])],
                                     result'.G)))]_vars

C14_Witness ==
    /\ IsCalc /\ ~IsErr(result.out)
    /\ pars["bcpt1"] = pars["bcpt2"]
    /\ \E q \in ParamVectors : q[1] # pars["bcpt1"]

\* C15: in one successful calc the models are called once for each
\* background attached to the source dataset, in the order of the
\* attached identifiers: the model registered for that background, with
\* exactly the grid arguments calc received; and the returned array has
\* one value for each bin of that grid.
C15_EachModelOnce ==
    (IsCalc /\ ~IsErr(result.out)) =>
        /\ Len(result.calls) = Len(background_ids)
        /\ \A i \in 1..Len(background_ids) :
              /\ result.calls[i].model = DictGet(Registered, background_ids[i])
              /\ result.calls[i].args = <<result.G>>
        /\ Len(result.out.val) = Len(result.G)

C15_Witness ==
    /\ IsCalc /\ ~IsErr(result.out)
    /\ Len(background_ids) = 2 /\ Len(result.calls) = 2
    /\ Len(result.G) = MaxBins
    /\ result.calls[1].model # result.calls[2].model
    /\ Unattached = {}

\* C16: add_response has no side effects of its own.  A call, failing or
\* not, leaves the session's registry of background models as it was (an
\* id without an entry still has none), leaves the dataset and the model
\* parameters as they were, and returns the bare model inside the result
\* as it was passed; with the state left as it was, a call with the same
\* inputs returns a model that is equal and so evaluates identically.
C16_NoSideEffects ==
    [][(result'.op = "add_response") =>
          /\ UNCHANGED <<subtracted, exposure, backscal, background_ids, backgrounds,
                         background_sources, pars, has_rsp>>
          /\ ~IsErr(result'.out) =>
                /\ result'.out.val.kind = "resp"
                /\ \/ result'.out.val.arg = result'.model
                   \/ result'.out.val.arg.lhs = result'.model
                /\ \A model \in SrcModels :
                      result'.model = model => add_response(model) = result'.out]_vars

C16_Witness ==
    /\ IsAddResponse /\ ~subtracted
    /\ ~background_sources.present
    /\ Attached # {}
    /\ result.out = BareResponse

\* C17: every error raised while a BackgroundSumModel is constructed or
\* evaluated, or inside add_response, reaches the caller as it was raised,
\* and the failing call returns nothing else.  Construction on a dataset
\* without background gives the dataset's error; calc gives the
\* missing-model error for the first attached background without a model,
\* or else the error the first failing wrapped model raised; add_response
\* gives the constructor's error when the constructor fails and otherwise
\* the response builder's error when the dataset has no response; and
\* evaluating the model add_response returned gives calc's error whenever
\* calc fails.
Raising == {k \in Attached : DictGet(Registered, k) = UserModel}
FirstFailing == background_ids[CHOOSE i \in 1..Len(background_ids) :
                    /\ background_ids[i] \in Missing \cup Raising
                    /\ \A j \in 1..(i - 1) : background_ids[j] \notin Missing \cup Raising]
CalcError == IF FirstFailing \in Missing THEN Err("bkgmodel", FirstFailing)
             ELSE Err("ModelErr", UserModel)

C17_ErrorsPropagate ==
    /\ result.op \in {"init", "calc", "add_response"} =>
          (IsErr(result.out) => DOMAIN result.out = {"tag", "code", "arg"})
    /\ IsInit => (IsErr(result.out) <=> Attached = {})
    /\ (IsInit /\ Attached = {}) => result.out = Err("nobkg", 0)
    /\ IsCalc => (IsErr(result.out) <=> Missing \cup Raising # {})
    /\ (IsCalc /\ Missing \cup Raising # {}) => result.out = CalcError
    /\ IsAddResponse =>
          LET folds == ~subtracted /\ Len(Registered) # 0
          IN  /\ IsErr(result.out) <=> ((folds /\ Attached = {}) \/ ~has_rsp)
              /\ (folds /\ Attached = {}) => result.out = Err("nobkg", 0)
              /\ (~(folds /\ Attached = {}) /\ ~has_rsp) => result.out = Err("norsp", 0)
              /\ (~IsErr(result.out) /\ folds /\ Missing \cup Raising # {}) =>
                    \A G \in Grids : ModelEval(result.out.val, G) = CalcError

C17_Witness ==
    /\ IsAddResponse /\ ~IsErr(result.out)
    /\ ~subtracted /\ Raising # {}
    /\ \A G \in Grids : ModelEval(result.out.val, G) = Err("ModelErr", UserModel)

\* a backscale as an array: a number is an array of one element
AsArr(x) == IF IsArr(x) THEN x.arr ELSE <<x>>

\* C18: calc combines each exposure/backscale ratio with the model output
\* as evaluated on the grid that was passed, with no grid conversion.  With
\* one background attached: when both backscales are numbers every bin is
\* ratio * model(G); when a backscale is an array with a value for each
\* channel, element i of the result is (exposure ratio) * (element i of the
\* source backscale) * (element i of model(G)) / (element i of the
\* background backscale), whatever grid G is (a length of 1 broadcasts);
\* lengths that do not broadcast give numpy's ValueError.
C18_NoGridConversion ==
    (IsCalc /\ Len(background_ids) = 1 /\ Missing = {}) =>
        LET k == background_ids[1]
            bkg == backgrounds[k]
            bg == ModelCall(ModelAmpl(DictGet(Registered, k)), result.G)
            sb == AsArr(backscal)
            bb == AsArr(bkg.backscal)
            lens == {Len(bg), Len(sb), Len(bb)}
            n == CHOOSE x \in lens : \A y \in lens : y <= x
        IN  IF lens \subseteq {1, n}
            THEN /\ ~IsErr(result.out)
                 /\ Len(result.out.val) = n
                 /\ \A i \in 1..n :
                       result.out.val[i] =
                           RMul(RDiv(exposure, bkg.exposure),
                                RMul(At(sb, i), RDiv(At(bg, i), At(bb, i))))
                 /\ (~IsArr(backscal) /\ ~IsArr(bkg.backscal)) =>
                       result.out.val = AMul(Ratio(k), bg)
            ELSE result.out = Err("ValueError", 0)

\* calc on an energy grid with an array backscale on the background: the
\* bins of the result are the model's bins on that grid, in its order,
\* each with the ratio of its position
C18_Witness ==
    /\ IsCalc /\ ~IsErr(result.out)
    /\ result.G = <<2, 1>>
    /\ ~IsArr(backscal) /\ IsArr(backgrounds[1].backscal)
    /\ Len(backgrounds[1].backscal.arr) = 2
    /\ result.out.val[1] # result.out.val[2]
    /\ result.out.val[1] # RMul(R(2, 1), result.out.val[2])

LastFlux(kind) == IF prev.op = "flux" THEN prev.calc[kind] ELSE NoArgs

OnlyUnattached == {m \in Models :
                      /\ \E u \in Unattached : DictGet(Registered, u) = m
                      /\ \A k \in Attached : DictGet(Registered, k) # m}

C24_DatasetDecides ==
    IsCalc =>
        /\ Len(result.calls) <= Len(background_ids)
        /\ \A i \in 1..Len(result.calls) :
              result.calls[i].model = DictGet(Registered, background_ids[i])
        /\ \A i \in 1..Len(result.calls) : result.calls[i].model \notin OnlyUnattached
        /\ Missing # {} => result.out = Err("bkgmodel", FirstMissing)
        /\ Missing = {} =>
              /\ Len(result.calls) = Len(background_ids)
              /\ result.out = Ok(WeightedSum(Registered, Attached, result.G))

\* one background attached, two models registered, the second under an
\* identifier that is not attached: one call, and the sum has one term
C24_Witness ==
    /\ IsCalc /\ ~IsErr(result.out)
    /\ background_ids = <<1>>
    /\ DictKeys(Registered) = {1, 2}
    /\ OnlyUnattached # {}
    /\ Len(result.calls) = 1
    /\ result.out.val = Scaled(Registered, 1, result.G)

\* C25: when the backscale of the source or of an attached background is
\* an array, the aggregate scale is an array and construction does not
\* write it into a name: it fails (the TypeError of '%g' given an array)
\* and no model is built; a construction that succeeds had scalars only.
ArrayRatio ==
    \/ IsArr(backscal)
    \/ \E k \in Attached : IsArr(backgrounds[k].backscal)

C26_FreshOnEveryCall ==
    (IsAddResponse /\ prev.op = "add_response" /\ Attached # {}) =>
        /\ Registered = <<>> => result.out = BareResponse
        /\ Registered # <<>> =>
              /\ ~IsErr(result.out)
              /\ result.out.val.arg.kind = "add"
              /\ result.out.val.arg.lhs = result.model
              /\ result.out.val.arg.rhs.parts = DictValues(Registered)
              /\ result.out.val.arg.rhs.name =
                    FormatG(RatioSum(Attached)) \o " * ("
                        \o Join(DictValues(Registered)) \o ")"
        /\ (/\ prev.model = result.model
            /\ ~IsErr(prev.out)
            /\ DictValues(prev.items) # DictValues(Registered)) =>
              result.out # prev.out

\* a model was registered at the first call and none is at the second
C26_Witness ==
    /\ IsAddResponse /\ prev.op = "add_response"
    /\ prev.model = result.model
    /\ Attached # {}
    /\ prev.items # <<>> /\ ~IsErr(prev.out)
    /\ Registered = <<>>
    /\ result.out = BareResponse
    /\ prev.out # BareResponse

\* the exposure/backscale ratio of the background k in the dataset as the
\* history h recorded it
RatioAt(h, k) == RMul(RDiv(h.exposure, h.backgrounds[k].exposure),
                      RDiv(h.backscal, h.backgrounds[k].backscal))

RECURSIVE RatioSumAt(_, _)
RatioSumAt(h, S) == IF S = {} THEN Zero
                    ELSE LET k == CHOOSE x \in S : TRUE
                         IN  RAdd(RatioAt(h, k), RatioSumAt(h, S \ {k}))

\* the backgrounds that were attached when the held model was built
AttachedAtInit == {prev.ids[i] : i \in 1..Len(prev.ids)}

\* the name the construction recorded in prev gave the model
NameAtInit == FormatG(RatioSumAt(prev, AttachedAtInit))
              \o " * (" \o Join(DictValues(prev.items)) \o ")"

\* the name a construction in the current state would give
NameNow == FormatG(RatioSum(Attached))
           \o " * (" \o Join(DictValues(Registered)) \o ")"

\* C27: the scale in a BackgroundSumModel's name is computed once, at
\* construction, over all backgrounds attached to the source dataset at
\* that time (whether or not bkgmodels has a key for them), and the name
\* is never updated: after the exposure or the backscale changed, or a
\* background was attached, the name still carries the scale of the
\* construction, while calc gives the weighted sum for the current values.
C27_NameScaleFrozen ==
    (bsm.built /\ prev.op = "init") =>
        /\ bsm.name = NameAtInit
        /\ (IsCalc /\ Missing = {}) =>
              result.out = Ok(WeightedSum(Registered, Attached, result.G))

C27_Witness ==
    /\ bsm.built /\ prev.op = "init"
    /\ IsCalc /\ Missing = {}
    /\ prev.exposure # exposure
    /\ bsm.name = NameAtInit /\ bsm.name # NameNow
    /\ result.out = Ok(WeightedSum(Registered, Attached, result.G))

\* the dict the held model was built over has changed since
MappingChanged == prev.op = "init" /\ prev.items # Registered

\* C28: BackgroundSumModel keeps the caller's dict by reference, and the
\* dict is the session's own: after a model was added to it, replaced in
\* it or removed from it, calc works with the dict as it is now.  It gives
\* the weighted sum of the models registered now when every attached
\* background has one (among them a key that had none at construction),
\* and fails with the missing-model error for the first attached
\* background without one (among them a key whose model was removed),
\* while the name is still the one built at construction.
C28_MappingByReference ==
    (IsCalc /\ bsm.built /\ MappingChanged) =>
        /\ result.out = IF Missing = {}
                        THEN Ok(WeightedSum(Registered, Attached, result.G))
                        ELSE Err("bkgmodel", FirstMissing)
        /\ bsm.name = NameAtInit
        /\ bsm.parts = DictValues(prev.items)

C28_Witness ==
    /\ IsCalc /\ bsm.built /\ MappingChanged
    /\ \E k \in Attached : ~DictHas(prev.items, k)
    /\ Missing = {}
    /\ result.out = Ok(WeightedSum(Registered, Attached, result.G))
    /\ bsm.name = NameAtInit /\ bsm.name # NameNow

\* how often add_response asked the session for the response
Requests == Cardinality({i \in 1..Len(result.steps) : result.steps[i] = "_get_response"})

\* add_response has to build a BackgroundSumModel; the construction fails
NeedsBackground == ~subtracted /\ Len(Registered) # 0
ConstructionFails == NeedsBackground /\ Attached = {}

\* C29: every add_response call asks the session for the response of
\* (id, data) exactly once, and only after it decided about the
\* backgrounds: when a BackgroundSumModel is needed, its construction
\* comes first and the request second, and when that construction fails
\* the response is not requested at all and the call returns nothing (it
\* ends with the error of the construction).
C29_ResponseRequestedLast ==
    IsAddResponse =>
        /\ Requests = IF ConstructionFails THEN 0 ELSE 1
        /\ NeedsBackground => result.steps[1] = "BackgroundSumModel"
        /\ ~NeedsBackground => result.steps = <<"_get_response">>
        /\ ConstructionFails => result.out = Err("nobkg", 0)
        /\ Requests = 1 => result.steps[Len(result.steps)] = "_get_response"

C29_Witness ==
    /\ IsAddResponse /\ ConstructionFails /\ has_rsp
    /\ result.steps = <<"BackgroundSumModel">>
    /\ result.out = Err("nobkg", 0)

====
